---- MODULE Spec2Model ----
(***************************************************************************)
(* Model of cc-insights (scripts/stats.py): the model-name normalizer, the *)
(* OTEL record parser, the resumable file-to-SQLite sync and the windowed  *)
(* aggregator with its cost computation.                                   *)
(*                                                                         *)
(* Strings are sequences of one-character strings, so that lower(),        *)
(* replace(), split(), isdigit() and the substring test are computed       *)
(* character by character as Python computes them.  An optional string     *)
(* (str | None) is a record [isNone, chars].                               *)
(***************************************************************************)
EXTENDS Integers, Sequences, FiniteSets, TLC

VARIABLES
    raw,      \* normalize_model_name: its argument
    norm,     \* normalize_model_name: its outcome
    pcN,      \* "call" before the call, "done" after it
    data,     \* parse_otel_metrics: the decoded JSON value
    fallback, \* parse_otel_metrics: fallback_date (NoDate for None)
    parsed,   \* parse_otel_metrics: its outcome
    pcP,      \* "build" while the payload is written, "done" after the call
    clock,    \* datetime.now(), in hours since the epoch
    files,    \* RAW_DIR/*.jsonl: for each file, its lines
    db,       \* metrics.db as committed: the metrics and sync_state tables
    conn,     \* the tables as the open connection of a sync pass sees them
    pc,       \* "idle", or "sync" while sync_json_to_db runs
    next,     \* position in json_files of the file the pass handles next
    hist,     \* history of the passes (not program state), see InitHist
    days,     \* get_stats: its argument days
    stats,    \* get_stats: the dict it returns
    report,   \* print_stats: the costs it prints
    pcS       \* "query" before get_stats, "got" after it, "printed" at the end

normVars == <<raw, norm, pcN>>

parseVars == <<data, fallback, parsed, pcP>>

syncVars == <<files, db, conn, pc, next, hist>>

statsVars == <<days, stats, report, pcS>>

vars == <<raw, norm, pcN, data, fallback, parsed, pcP, clock,
          files, db, conn, pc, next, hist, days, stats, report, pcS>>

----------------------------------------------------------------------------
(* Python str | None *)

None == [isNone |-> TRUE, chars |-> <<>>]

Str(s) == [isNone |-> FALSE, chars |-> s]

\* No result yet
NotCalled == [isNone |-> TRUE, chars |-> <<"?">>]

\* Truthiness of a str | None: None and "" are falsy.
Truthy(m) == ~m.isNone /\ m.chars # <<>>

UpperToLower ==
    [O |-> "o", P |-> "p", U |-> "u", S |-> "s", H |-> "h", X |-> "x"]

\* str.lower(), one character
LowerChar(c) == IF c \in DOMAIN UpperToLower THEN UpperToLower[c] ELSE c

\* str.lower()
Lower(s) == [i \in 1..Len(s) |-> LowerChar(s[i])]

\* sub in s
Contains(sub, s) ==
    \E i \in 0..(Len(s) - Len(sub)) : SubSeq(s, i + 1, i + Len(sub)) = sub

\* s.replace(a, b) for one-character a and b
Replace(s, a, b) == [i \in 1..Len(s) |-> IF s[i] = a THEN b ELSE s[i]]

\* s.split(sep): adjacent separators give empty tokens, as in Python
RECURSIVE Split(_, _)
Split(s, sep) ==
    IF \A i \in 1..Len(s) : s[i] # sep
    THEN <<s>>
    ELSE LET i == CHOOSE k \in 1..Len(s) :
                     s[k] = sep /\ \A j \in 1..(k - 1) : s[j] # sep
         IN  <<SubSeq(s, 1, i - 1)>> \o Split(SubSeq(s, i + 1, Len(s)), sep)

Digits == {"0", "1", "2", "3", "4", "5", "6", "7", "8", "9"}

\* p.isdigit(): false for the empty string
IsDigit(p) == Len(p) > 0 /\ \A i \in 1..Len(p) : p[i] \in Digits

\* sep.join(parts)
RECURSIVE Join(_, _)
Join(parts, sep) ==
    IF parts = <<>> THEN <<>>
    ELSE IF Len(parts) = 1 THEN parts[1]
    ELSE parts[1] \o sep \o Join(Tail(parts), sep)

\* min(indices)
Least(indices) == CHOOSE i \in indices : \A j \in indices : i <= j

\* The members of a list of lists, in order
RECURSIVE Concat(_)
Concat(seqs) == IF seqs = <<>> THEN <<>> ELSE seqs[1] \o Concat(Tail(seqs))

----------------------------------------------------------------------------
(* normalize_model_name *)

Opus == <<"o", "p", "u", "s">>
Sonnet == <<"s", "o", "n", "n", "e", "t">>
Haiku == <<"h", "a", "i", "k", "u">>

\* for family in ("opus", "sonnet", "haiku")
Families == <<Opus, Sonnet, Haiku>>

\* Longest prefix of parts whose members are all-digit and at most 2 long
RECURSIVE VersionParts(_)
VersionParts(parts) ==
    IF parts = <<>> THEN <<>>
    ELSE IF IsDigit(parts[1]) /\ Len(parts[1]) <= 2
         THEN <<parts[1]>> \o VersionParts(Tail(parts))
         ELSE <<>>

\* The body of the loop once `family in raw.lower()` holds
NormalizeFamily(rawChars, family) ==
    LET parts == Split(Replace(Replace(rawChars, ".", "-"), ":", "-"), "-")
        hits  == {i \in 1..Len(parts) : parts[i] = family}
    IN  IF hits = {}
        THEN family                              \* except StopIteration
        ELSE LET idx == CHOOSE i \in hits : \A j \in hits : i <= j
                 version_parts == VersionParts(SubSeq(parts, idx + 1, Len(parts)))
             IN  IF version_parts # <<>>
                 THEN family \o <<"-">> \o Join(version_parts, <<"-">>)
                 ELSE family

normalize_model_name(r) ==
    IF ~Truthy(r) THEN None
    ELSE LET low     == Lower(r.chars)
             matches == {k \in 1..Len(Families) : Contains(Families[k], low)}
         IN  IF matches = {}
             THEN r
             ELSE LET k == CHOOSE i \in matches : \A j \in matches : i <= j
                  IN  Str(NormalizeFamily(r.chars, Families[k]))

----------------------------------------------------------------------------
(* parse_otel_metrics                                                      *)
(*                                                                         *)
(* A decoded JSON value is modelled by the part of its shape the parser    *)
(* looks at:                                                               *)
(*   data   = [kind, rms]     kind "nonobj": not a dict; "noRM": a dict    *)
(*                            without resourceMetrics; "rmNull", "rmNum":  *)
(*                            resourceMetrics is null / a number;          *)
(*                            "rmList": resourceMetrics is the list rms    *)
(*   rm     = [isObj, scopes]         scopeMetrics                         *)
(*   scope  = [isObj, metrics]        metrics                              *)
(*   metric = [isObj, name, dps]      name, sum.dataPoints                 *)
(*   dp     = [isObj, time, value, type, model]                            *)
(* isObj = FALSE is an entry that is not a JSON object (it has no          *)
(* children).  Times are in hours since the epoch; a date is a day number. *)
(***************************************************************************)

TokenUsage == "claude_code.token.usage"

TokenTypes == {"input", "output", "cacheRead", "cacheCreation"}

\* str | None for dates
NoDate == [isNone |-> TRUE, day |-> 0]

Day(d) == [isNone |-> FALSE, day |-> d]

\* What a call does: raise, or return a list of records
Raised == [raised |-> TRUE, records |-> <<>>]

Returned(recs) == [raised |-> FALSE, records |-> recs]

\* One step of the generator inside any(): a non-object rm or scope raises
\* AttributeError, a scope with a non-empty metrics list ends the scan
ScanScope(sc) ==
    IF ~sc.isObj THEN <<"raise">>
    ELSE IF sc.metrics # <<>> THEN <<"true">> ELSE <<>>

ScanRM(rm) ==
    IF ~rm.isObj THEN <<"raise">>
    ELSE Concat([i \in 1..Len(rm.scopes) |-> ScanScope(rm.scopes[i])])

\* has_metrics = any(...): the first entry that decides it
FirstEvent(events) == IF events = <<>> THEN "false" ELSE events[1]

HasMetrics(d) == FirstEvent(Concat([i \in 1..Len(d.rms) |-> ScanRM(d.rms[i])]))

\* Every entry met by a walk: the children of the entries of a list
Scopes(rms) == Concat([i \in 1..Len(rms) |-> rms[i].scopes])

Metrics(scopes) == Concat([i \in 1..Len(scopes) |-> scopes[i].metrics])

DataPoints(metrics) == Concat([i \in 1..Len(metrics) |-> metrics[i].dps])

TokenMetrics(metrics) ==
    Concat([i \in 1..Len(metrics) |->
               IF metrics[i].name = TokenUsage THEN <<metrics[i]>> ELSE <<>>])

AllScopes(d) == Scopes(d.rms)

AllMetrics(d) == Metrics(AllScopes(d))

\* Every data point of every metric, in the order of the walk
AllDPs(d) == DataPoints(AllMetrics(d))

\* The data points of the metrics named claude_code.token.usage
TokenDPs(d) == DataPoints(TokenMetrics(AllMetrics(d)))

SomeNotObj(entries) == \E i \in 1..Len(entries) : ~entries[i].isObj

\* The walk inside try raises (AttributeError) at an entry that is no object
WalkRaises(d) ==
    \/ SomeNotObj(d.rms)
    \/ SomeNotObj(AllScopes(d))
    \/ SomeNotObj(AllMetrics(d))
    \/ SomeNotObj(AllDPs(d))

MaxOf(numbers) == CHOOSE t \in numbers : \A u \in numbers : u <= t

TimesOf(dps) == {0} \cup {dps[i].time : i \in 1..Len(dps)}

\* latest_time_nano
LatestTime(d) == MaxOf(TimesOf(AllDPs(d)))

\* The keys of per_model, in insertion order
RECURSIVE ModelKeys(_)
ModelKeys(dps) ==
    IF dps = <<>> THEN <<>>
    ELSE LET before == ModelKeys(SubSeq(dps, 1, Len(dps) - 1))
             model  == normalize_model_name(dps[Len(dps)].model)
         IN  IF \E i \in 1..Len(before) : before[i] = model
             THEN before ELSE Append(before, model)

\* Bucket with one bucket shared by all models (the model key ignored)
RECURSIVE BucketShared(_, _, _)
BucketShared(dps, model, type) ==
    IF dps = <<>> THEN 0
    ELSE BucketShared(Tail(dps), model, type)
         + (IF dps[1].type = type THEN dps[1].value ELSE 0)

\* per_model[model][kind] after the walk
RECURSIVE Bucket(_, _, _)
Bucket(dps, model, type) ==
    IF dps = <<>> THEN 0
    ELSE Bucket(Tail(dps), model, type)
         + (IF normalize_model_name(dps[1].model) = model /\ dps[1].type = type
            THEN dps[1].value ELSE 0)

\* timestamp and date, from latest_time_nano, fallback_date or now()
TimestampOf(latest, fb, nowH) ==
    IF latest > 0
    THEN [day |-> latest \div 24, hour |-> latest % 24]
    ELSE IF ~fb.isNone
         THEN [day |-> fb.day, hour |-> 0]
         ELSE [day |-> nowH \div 24, hour |-> nowH % 24]

Timestamp(d, fb, nowH) == TimestampOf(LatestTime(d), fb, nowH)

\* Lines 202-215: one record per key of per_model
Records(dps, keys, ts) ==
    [i \in 1..Len(keys) |->
       [ timestamp             |-> ts,
         date                  |-> ts.day,
         model                 |-> keys[i],
         input_tokens          |-> Bucket(dps, keys[i], "input"),
         output_tokens         |-> Bucket(dps, keys[i], "output"),
         cache_read_tokens     |-> Bucket(dps, keys[i], "cacheRead"),
         cache_creation_tokens |-> Bucket(dps, keys[i], "cacheCreation"),
         total_tokens          |-> Bucket(dps, keys[i], "input")
                                   + Bucket(dps, keys[i], "output")
                                   + Bucket(dps, keys[i], "cacheRead")
                                   + Bucket(dps, keys[i], "cacheCreation") ]]

ResultsOf(dps, ts) == Records(dps, ModelKeys(dps), ts)

Results(d, fb, nowH) == ResultsOf(TokenDPs(d), Timestamp(d, fb, nowH))

\* Lines 147-220: the body of try, with except Exception returning []
TryBody(d, fb, nowH) ==
    IF WalkRaises(d) THEN Returned(<<>>)
    ELSE IF TokenDPs(d) = <<>> THEN Returned(<<>>)
    ELSE Returned(Results(d, fb, nowH))

\* Lines 139-220, given what the has_metrics scan came to
AfterScan(scan, d, fb, nowH) ==
    IF scan = "raise" THEN Raised                 \* rm.get, scope.get
    ELSE IF scan = "false" THEN Returned(<<>>)
    ELSE TryBody(d, fb, nowH)

parse_otel_metrics(d, fb, nowH) ==
    IF d.kind = "nonobj" THEN Returned(<<>>)
    ELSE IF d.kind = "noRM" THEN Returned(<<>>)
    ELSE IF d.kind \in {"rmNull", "rmNum"} THEN Raised   \* for rm in None
    ELSE AfterScan(HasMetrics(d), d, fb, nowH)

\* Raw model identifiers: "opus-4", "x.opus-4-x" (both normalize to opus-4)
\* and "haiku"
ModelOpusA == Str(Opus \o <<"-", "4">>)
ModelOpusB == Str(<<"x", ".">> \o Opus \o <<"-", "4", "-", "x">>)
ModelHaiku == Str(Haiku)

DataPoint(t, v, ty, m) ==
    [isObj |-> TRUE, time |-> t, value |-> v, type |-> ty, model |-> m]

NotAnObject == [isObj |-> FALSE, time |-> 0, value |-> 0, type |-> "", model |-> None]

\* No result yet
NotParsed == [raised |-> FALSE, records |-> <<"?">>]

IdleData == [kind |-> "nonobj", rms |-> <<>>]

----------------------------------------------------------------------------
(* get_pricing, compute_cost, get_stats, print_stats                       *)
(*                                                                         *)
(* A rate is in thousandths of a dollar per million tokens and a cost in   *)
(* billionths of a dollar, so that (tokens / 1_000_000) * rate is the      *)
(* integer tokens * rate; the rounding of Python's floats is not modelled. *)
(***************************************************************************)

OpusPricing ==
    [input |-> 15000, output |-> 75000, cache_read |-> 1875, cache_write |-> 18750]

SonnetPricing ==
    [input |-> 3000, output |-> 15000, cache_read |-> 300, cache_write |-> 3750]

HaikuPricing ==
    [input |-> 800, output |-> 4000, cache_read |-> 80, cache_write |-> 1000]

DEFAULT_PRICING ==
    [input |-> 15000, output |-> 75000, cache_read |-> 1875, cache_write |-> 18750]

\* The keys of MODEL_PRICING with their prices
MODEL_PRICING ==
    { [key |-> <<"c", "l", "a", "u", "d", "e", "-", "o", "p", "u", "s", "-", "4", "-", "5", "-", "2", "0", "2", "5", "0", "1", "1", "5">>, price |-> OpusPricing],
      [key |-> <<"c", "l", "a", "u", "d", "e", "-", "s", "o", "n", "n", "e", "t", "-", "4", "-", "5", "-", "2", "0", "2", "5", "0", "1", "1", "5">>, price |-> SonnetPricing],
      [key |-> <<"c", "l", "a", "u", "d", "e", "-", "h", "a", "i", "k", "u", "-", "3", "-", "5", "-", "2", "0", "2", "4", "1", "0", "2", "2">>, price |-> HaikuPricing],
      [key |-> Opus, price |-> OpusPricing],
      [key |-> Sonnet, price |-> SonnetPricing],
      [key |-> Haiku, price |-> HaikuPricing] }

\* for keyword in ("opus", "sonnet", "haiku"): the first one in model.lower()
FuzzyPricing(low) ==
    IF Contains(Opus, low) THEN OpusPricing
    ELSE IF Contains(Sonnet, low) THEN SonnetPricing
    ELSE IF Contains(Haiku, low) THEN HaikuPricing
    ELSE DEFAULT_PRICING

get_pricing(model) ==
    IF ~Truthy(model) THEN DEFAULT_PRICING
    ELSE IF \E e \in MODEL_PRICING : e.key = model.chars
         THEN (CHOOSE e \in MODEL_PRICING : e.key = model.chars).price
         ELSE FuzzyPricing(Lower(model.chars))

CostAt(pricing, input_t, output_t, cache_read_t, cache_create_t) ==
    input_t * pricing.input + output_t * pricing.output
    + cache_read_t * pricing.cache_read + cache_create_t * pricing.cache_write

compute_cost(input_t, output_t, cache_read_t, cache_create_t, model) ==
    CostAt(get_pricing(model), input_t, output_t, cache_read_t, cache_create_t)

\* SUM(column) over rows
RECURSIVE SumOf(_, _)
SumOf(rows, column) ==
    IF rows = <<>> THEN 0 ELSE rows[1][column] + SumOf(Tail(rows), column)

\* COUNT(*) and the sums of the four token columns over rows
Totals(rows) ==
    [ reqs |-> Len(rows),
      inp  |-> SumOf(rows, "input_tokens"),
      out  |-> SumOf(rows, "output_tokens"),
      cr   |-> SumOf(rows, "cache_read_tokens"),
      cc   |-> SumOf(rows, "cache_creation_tokens") ]

\* WHERE date >= ? AND date <= ?
DatedWithin(rows, first, last) ==
    SelectSeq(rows, LAMBDA r : first <= r.date /\ r.date <= last)

\* WHERE date >= ?
DatedFrom(rows, first) == SelectSeq(rows, LAMBDA r : first <= r.date)

\* The elements of a set of numbers in ascending order
RECURSIVE Ascending(_)
Ascending(numbers) ==
    IF numbers = {} THEN <<>>
    ELSE <<Least(numbers)>> \o Ascending(numbers \ {Least(numbers)})

Reverse(seq) == [i \in 1..Len(seq) |-> seq[Len(seq) + 1 - i]]

\* GROUP BY model: one entry per model (NULL is a group of its own)
ModelGroup(rows, model) ==
    [ model |-> model,
      sums  |-> Totals(SelectSeq(rows, LAMBDA r : r.model = model)),
      total |-> SumOf(SelectSeq(rows, LAMBDA r : r.model = model), "total_tokens") ]

ModelGroups(rows) == {ModelGroup(rows, rows[i].model) : i \in 1..Len(rows)}

\* ORDER BY SUM(total_tokens) DESC: any order of the groups that agrees with
\* it (SQL leaves the order of equal sums open)
Descending(groups) ==
    {order \in [1..Cardinality(groups) -> groups] :
        /\ \A i, j \in 1..Cardinality(groups) : i < j => order[i] # order[j]
        /\ \A i, j \in 1..Cardinality(groups) : i < j => order[i].total >= order[j].total}

\* GROUP BY hour ORDER BY hour
HourGroups(rows, hours) ==
    [i \in 1..Len(hours) |->
        [ hour |-> hours[i],
          reqs |-> Len(SelectSeq(rows, LAMBDA r : r.timestamp.hour = hours[i])) ]]

by_hour(rows) ==
    HourGroups(rows, Ascending({rows[i].timestamp.hour : i \in 1..Len(rows)}))

\* GROUP BY date ORDER BY date DESC
DateGroups(rows, dates) ==
    [i \in 1..Len(dates) |->
        [ date |-> dates[i],
          sums |-> Totals(DatedWithin(rows, dates[i], dates[i])) ]]

daily_breakdown(rows) ==
    DateGroups(rows, Reverse(Ascending({rows[i].date : i \in 1..Len(rows)})))

\* The dict get_stats returns, from the rows of its queries
StatsOf(cur, prev, by_model) ==
    [ request_count   |-> Len(cur),
      sums            |-> Totals(cur),
      total_tokens    |-> SumOf(cur, "total_tokens"),
      by_model        |-> by_model,
      by_hour         |-> by_hour(cur),
      daily_breakdown |-> daily_breakdown(cur),
      prev            |-> Totals(prev) ]

\* get_stats with today the day of now(); by_model is given in one of the
\* orders the query may return
get_stats_on(rows, d, today, by_model) ==
    StatsOf(DatedFrom(rows, today - (d - 1)),
            DatedWithin(rows, today - (2 * d - 1), today - d),
            by_model)

ByModelOrders(rows, d, today) ==
    Descending(ModelGroups(DatedFrom(rows, today - (d - 1))))

\* Lines 415-418: total_cost
RECURSIVE TotalCost(_)
TotalCost(by_model) ==
    IF by_model = <<>> THEN 0
    ELSE compute_cost(by_model[1].sums.inp, by_model[1].sums.out,
                      by_model[1].sums.cr, by_model[1].sums.cc, by_model[1].model)
         + TotalCost(Tail(by_model))

\* compute_cost called without a model
CostNoModel(sums) == compute_cost(sums.inp, sums.out, sums.cr, sums.cc, None)

\* Lines 480-491: the rows of the Daily Breakdown table
DailyRows(daily) ==
    IF Len(daily) > 1
    THEN [i \in 1..Len(daily) |->
            [ date   |-> daily[i].date,
              reqs   |-> daily[i].sums.reqs,
              tokens |-> daily[i].sums.inp + daily[i].sums.out
                         + daily[i].sums.cr + daily[i].sums.cc,
              cost   |-> CostNoModel(daily[i].sums) ]]
    ELSE <<>>

NoReport == [shown |-> FALSE, total_cost |-> 0, prev_cost |-> 0, daily |-> <<>>]

\* What print_stats prints of costs; nothing when request_count == 0
print_stats(st) ==
    IF st.request_count = 0 THEN NoReport
    ELSE [ shown      |-> TRUE,
           total_cost |-> TotalCost(st.by_model),
           prev_cost  |-> CostNoModel(st.prev),
           daily      |-> DailyRows(st.daily_breakdown) ]

NoStats == StatsOf(<<>>, <<>>, <<>>)

StatsIdle ==
    /\ days = 0
    /\ stats = NoStats
    /\ report = NoReport
    /\ pcS = "idle"

----------------------------------------------------------------------------
(* sync_json_to_db                                                         *)
(*                                                                         *)
(* A line of a file is its text; JsonLoads gives what json.loads makes of  *)
(* it.  A row of metrics is the parsed record with raw_data (the columns   *)
(* id and synced_at, which nothing reads, are left out); its field         *)
(* src = <<file, line index>> is not a column: it records which line the   *)
(* row was read from.  A pass is BeginSync, one SyncFile step per file of  *)
(* json_files, then Commit; an exception ends it without commit.           *)
(***************************************************************************)

\* The lines written to all files together stay below MaxLines
MaxLines == 3

MaxClock == 1

\* sorted(glob(RAW_DIR/*.jsonl))
Files == {1, 2}

json_files == <<1, 2>>

\* File 1 is named metrics-<day 1>.jsonl; the name of file 2 has no date
FallbackDate(f) == IF f = 1 THEN Day(1) ELSE NoDate

\* One payload with token-usage data points of two models
PayloadTwo ==
    [ kind |-> "rmList",
      rms  |-> << [ isObj  |-> TRUE,
                    scopes |-> << [ isObj   |-> TRUE,
                                    metrics |-> << [ isObj |-> TRUE,
                                                     name  |-> TokenUsage,
                                                     dps   |-> << DataPoint(30, 1, "input", ModelOpusA),
                                                                  DataPoint(50, 2, "input", ModelHaiku) >> ] >> ] >> ] >> ]

\* The texts a line may hold: "bad" is no JSON, "two" is PayloadTwo, "null"
\* is {"resourceMetrics": null}
LineTexts == {"bad", "two", "null"}

\* json.loads(line.strip()): ok = FALSE is json.JSONDecodeError
JsonLoads(line) ==
    IF line = "two" THEN [ok |-> TRUE, data |-> PayloadTwo]
    ELSE IF line = "null" THEN [ok |-> TRUE, data |-> [kind |-> "rmNull", rms |-> <<>>]]
    ELSE [ok |-> FALSE, data |-> IdleData]

\* Lines 252-268 for one line: the records to insert, or the exception that
\* leaves the loop (json.JSONDecodeError is caught: no record)
Decoded(loaded, f, nowH) ==
    IF ~loaded.ok THEN Returned(<<>>)
    ELSE parse_otel_metrics(loaded.data, FallbackDate(f), nowH)

LineOutcomeOf(line, f, nowH) == Decoded(JsonLoads(line), f, nowH)

\* LineOutcomeOf as a table, computed once
LineOutcomes ==
    [line \in LineTexts, f \in Files, nowH \in 0..MaxClock |->
        LineOutcomeOf(line, f, nowH)]

LineOutcome(line, f, nowH) == LineOutcomes[line, f, nowH]

\* INSERT INTO metrics: the rows of line i of file f, one per record
Rows(recs, f, i, line) ==
    [j \in 1..Len(recs) |->
       [ timestamp             |-> recs[j].timestamp,
         date                  |-> recs[j].date,
         model                 |-> recs[j].model,
         input_tokens          |-> recs[j].input_tokens,
         output_tokens         |-> recs[j].output_tokens,
         cache_read_tokens     |-> recs[j].cache_read_tokens,
         cache_creation_tokens |-> recs[j].cache_creation_tokens,
         total_tokens          |-> recs[j].total_tokens,
         raw_data              |-> line,
         src                   |-> <<f, i>> ]]

RowsOf(f, i, line, nowH) == Rows(LineOutcome(line, f, nowH).records, f, i, line)

\* The metrics table after the loop of line 251 has handled the lines with
\* the given indices, in ascending order
RECURSIVE InsertLines(_, _, _, _, _)
InsertLines(metrics, f, lines, indices, nowH) ==
    IF indices = {} THEN metrics
    ELSE InsertLines(metrics \o RowsOf(f, Least(indices), lines[Least(indices)], nowH),
                     f, lines, indices \ {Least(indices)}, nowH)

NoRow == [present |-> FALSE, last_line |-> 0, synced_at |-> 0]

EmptyDb == [metrics |-> <<>>, sync_state |-> [f \in Files |-> NoRow]]

\* row[0] if row else 0
LastLine(tables, f) ==
    IF tables.sync_state[f].present THEN tables.sync_state[f].last_line ELSE 0

\* The new lines taken as lines[last_line + 1:], one line skipped
NewLinesSkipOne(tables, f, lines) == (LastLine(tables, f) + 2)..Len(lines)

\* The new lines of a reader that starts over when the file has become
\* shorter than last_line
NewLinesFromStart(tables, f, lines) ==
    IF Len(lines) < LastLine(tables, f) THEN 1..Len(lines)
    ELSE (LastLine(tables, f) + 1)..Len(lines)

\* The indices (from 1) of lines[last_line:]
NewLines(tables, f, lines) == (LastLine(tables, f) + 1)..Len(lines)

\* The new lines at which parse_otel_metrics raises
RaisingLines(tables, f, lines, nowH) ==
    {i \in NewLines(tables, f, lines) : LineOutcome(lines[i], f, nowH).raised}

\* The cursor written as len(new_lines) instead of len(lines)
CursorOfNewLines(tables, f, lines) == Len(lines) - LastLine(tables, f)

\* INSERT OR REPLACE INTO sync_state: the last_line written, len(lines)
Cursor(tables, f, lines) == Len(lines)

\* Lines 251-273: the rows of the new lines and the cursor row are written
WriteFile(tables, f, lines, nowH) ==
    [ metrics    |-> InsertLines(tables.metrics, f, lines,
                                 NewLines(tables, f, lines), nowH),
      sync_state |-> [tables.sync_state EXCEPT
                         ![f] = [ present   |-> TRUE,
                                  last_line |-> Cursor(tables, f, lines),
                                  synced_at |-> nowH ]] ]

\* Synced without `if not new_lines: continue`
SyncedWithoutContinue(tables, f, lines, nowH) == WriteFile(tables, f, lines, nowH)

\* Lines 240-273 for a file none of whose new lines raises
Synced(tables, f, lines, nowH) ==
    IF NewLines(tables, f, lines) = {}
    THEN tables                                   \* if not new_lines: continue
    ELSE WriteFile(tables, f, lines, nowH)

\* An exception leaves sync_json_to_db before conn.commit(): the connection
\* is dropped and its open transaction rolled back
\* OnException with every execute() committed at once
OnExceptionCommits(committed, working) == working

OnException(committed, working) == committed

\* History of the passes, kept for the statements about them:
\*   before     for each file, last_line in db when the current or last
\*              pass began
\*   read       for each file, the number of lines the pass read (-1: not yet)
\*   clean      no line was appended since the pass began
\*   settled    a pass began and completed with no line appended since
\*   run        how the last pass ended: "none" (none ended, or one is
\*              running), "first", "repeat" (completed when settled), "failed"
\*              (I/O or storage error), "raised" (exception of the parser)
\*   file       the file a failed pass was handling (0: none)
\*   retry      the file the pass before the current or last one was handling
\*              when it failed with an I/O or storage error (0: none)
\*   cuts       the number of times a file was truncated
InitHist ==
    [ before |-> [f \in Files |-> 0], read |-> [f \in Files |-> -1], clean |-> FALSE,
      settled |-> FALSE, run |-> "none", file |-> 0, retry |-> 0, cuts |-> 0 ]

SyncIdle ==
    /\ files = [f \in Files |-> <<>>]
    /\ db = EmptyDb
    /\ conn = EmptyDb
    /\ pc = "idle"
    /\ next = 0
    /\ hist = InitHist

RECURSIVE SumLen(_)
SumLen(fs) ==
    IF fs = {} THEN 0
    ELSE LET f == CHOOSE g \in fs : TRUE IN Len(files[f]) + SumLen(fs \ {f})

TotalLines == SumLen(Files)

InitSync ==
    /\ SyncIdle
    /\ StatsIdle
    /\ clock = 0
    /\ raw = None /\ norm = NotCalled /\ pcN = "idle"
    /\ data = IdleData /\ fallback = NoDate /\ parsed = NotParsed /\ pcP = "idle"

\* The collector appends one line to a file
AppendLine ==
    /\ \E f \in Files, text \in LineTexts :
          /\ TotalLines < MaxLines
          /\ files' = [files EXCEPT ![f] = Append(@, text)]
    /\ hist' = [hist EXCEPT !.clean = FALSE, !.settled = FALSE]
    /\ UNCHANGED <<db, conn, pc, next, clock, normVars, parseVars, statsVars>>

Tick ==
    /\ clock < MaxClock
    /\ clock' = clock + 1
    /\ UNCHANGED <<syncVars, normVars, parseVars, statsVars>>

\* Lines 225-232: init_db() and the list of files
BeginSync ==
    /\ pc = "idle"
    /\ pc' = "sync"
    /\ conn' = db
    /\ next' = 1
    /\ hist' = [hist EXCEPT !.before = [f \in Files |-> LastLine(db, f)],
                            !.read = [f \in Files |-> -1],
                            !.clean = TRUE, !.run = "none", !.file = 0,
                            !.retry = IF hist.run = "failed" THEN hist.file ELSE 0]
    /\ UNCHANGED <<files, db, clock, normVars, parseVars, statsVars>>

\* Lines 234-273: one iteration of the loop over json_files
SyncFileOf(f) ==
    /\ RaisingLines(conn, f, files[f], clock) = {}
    /\ conn' = Synced(conn, f, files[f], clock)
    /\ hist' = [hist EXCEPT !.read[f] = Len(files[f])]

SyncFile ==
    /\ pc = "sync" /\ next <= Len(json_files)
    /\ SyncFileOf(json_files[next])
    /\ next' = next + 1
    /\ UNCHANGED <<files, db, pc, clock, normVars, parseVars, statsVars>>

\* The tables of the connection once the rows of the new lines up to line
\* `upto` are inserted
Partial(tables, f, lines, upto, nowH) ==
    [tables EXCEPT !.metrics =
        InsertLines(@, f, lines, {i \in NewLines(tables, f, lines) : i <= upto}, nowH)]

\* An exception leaves sync_json_to_db while it handles file f
Abort(work, f, how) ==
    /\ db' = OnException(db, work)
    /\ conn' = db'
    /\ pc' = "idle"
    /\ hist' = [hist EXCEPT !.run = how, !.file = f]
    /\ UNCHANGED <<files, next, clock, normVars, parseVars, statsVars>>

RaisesAt(f, bad) ==
    /\ bad # {}
    /\ Abort(Partial(conn, f, files[f], Least(bad) - 1, clock), f, "raised")

\* Lines 251-254: parse_otel_metrics raises at a new line; the rows of the
\* lines before it were inserted, the exception leaves sync_json_to_db
SyncFileRaises ==
    /\ pc = "sync" /\ next <= Len(json_files)
    /\ RaisesAt(json_files[next],
                RaisingLines(conn, json_files[next], files[json_files[next]], clock))

\* The line indices up to which the loop of line 251 can get: last_line (no
\* new line handled) and every new line with no raising line up to it
Reachable(f, new, bad) ==
    {LastLine(conn, f)} \cup {i \in new : \A j \in bad : j > i}

FailsAt(f, upto) == Abort(Partial(conn, f, files[f], upto, clock), f, "failed")

\* Lines 244-273: open(), readlines() or an execute() fails after the rows
\* of some new lines were inserted; the exception leaves sync_json_to_db
SyncFileFails ==
    /\ pc = "sync" /\ next <= Len(json_files)
    /\ \E upto \in Reachable(json_files[next],
                             NewLines(conn, json_files[next], files[json_files[next]]),
                             RaisingLines(conn, json_files[next],
                                          files[json_files[next]], clock)) :
          FailsAt(json_files[next], upto)

\* Lines 275-276: conn.commit(), conn.close()
Commit ==
    /\ pc = "sync" /\ next = Len(json_files) + 1
    /\ db' = conn
    /\ conn' = db'
    /\ pc' = "idle"
    /\ hist' = [hist EXCEPT
                   !.run = IF hist.settled /\ hist.clean THEN "repeat" ELSE "first",
                   !.settled = hist.clean]
    /\ UNCHANGED <<files, next, clock, normVars, parseVars, statsVars>>

Next ==
    \/ AppendLine
    \/ Tick
    \/ BeginSync
    \/ SyncFile
    \/ SyncFileRaises
    \/ SyncFileFails
    \/ Commit

Spec == InitSync /\ [][Next]_vars

----------------------------------------------------------------------------
(* Files that are truncated or rewritten.  sync_json_to_db reads whatever  *)
(* the file holds when the pass opens it (lines 244-245); a file that was  *)
(* rewritten is one that was truncated and then appended to.               *)

\* Files are truncated at most MaxCuts times
MaxCuts == 1

\* A file is cut down to its first n lines (n = 0: emptied)
Truncate ==
    /\ hist.cuts < MaxCuts
    /\ \E f \in Files, n \in 0..MaxLines :
          /\ n < Len(files[f])
          /\ files' = [files EXCEPT ![f] = SubSeq(@, 1, n)]
    /\ hist' = [hist EXCEPT !.clean = FALSE, !.settled = FALSE, !.cuts = @ + 1]
    /\ UNCHANGED <<db, conn, pc, next, clock, normVars, parseVars, statsVars>>

NextRewrite ==
    \/ AppendLine
    \/ Truncate
    \/ Tick
    \/ BeginSync
    \/ SyncFile
    \/ SyncFileRaises
    \/ SyncFileFails
    \/ Commit

SpecRewrite == InitSync /\ [][NextRewrite]_vars

----------------------------------------------------------------------------
(* Inputs of get_stats and print_stats: a store of up to MaxRows records,  *)
(* dated from three days before today to the day after it, and a window of *)
(* one or two days (main asks for 1, 7 and 30).                            *)

MaxRows == 2

StoredRow(day, hour, model, inp, out) ==
    [ timestamp             |-> [day |-> day, hour |-> hour],
      date                  |-> day,
      model                 |-> model,
      input_tokens          |-> inp,
      output_tokens         |-> out,
      cache_read_tokens     |-> 0,
      cache_creation_tokens |-> 0,
      total_tokens          |-> inp + out,
      raw_data              |-> "two",
      src                   |-> <<1, 1>> ]

Today == clock \div 24

RowChoices ==
    { StoredRow(day, 9, model, tokens[1], tokens[2]) :
         day \in (Today - 3)..(Today + 1),
         model \in {None, Str(Opus \o <<"-", "4">>), Str(Haiku)},
         tokens \in {<<1, 0>>, <<0, 2>>} }

InitStats ==
    /\ clock = 5 * 24 + 9
    /\ \E n \in 0..MaxRows :
          db \in [metrics : [1..n -> RowChoices], sync_state : {[f \in Files |-> NoRow]}]
    /\ files = [f \in Files |-> <<>>]
    /\ conn = EmptyDb /\ pc = "idle" /\ next = 0 /\ hist = InitHist
    /\ days \in {1, 2}
    /\ stats = NoStats
    /\ report = NoReport
    /\ pcS = "query"
    /\ raw = None /\ norm = NotCalled /\ pcN = "idle"
    /\ data = IdleData /\ fallback = NoDate /\ parsed = NotParsed /\ pcP = "idle"

GetStats ==
    /\ pcS = "query"
    /\ \E by_model \in ByModelOrders(db.metrics, days, Today) :
          stats' = get_stats_on(db.metrics, days, Today, by_model)
    /\ pcS' = "got"
    /\ UNCHANGED <<days, report, clock, normVars, parseVars, syncVars>>

PrintStats ==
    /\ pcS = "got"
    /\ report' = print_stats(stats)
    /\ pcS' = "printed"
    /\ UNCHANGED <<days, stats, clock, normVars, parseVars, syncVars>>

NextStats == GetStats \/ PrintStats

SpecStats == InitStats /\ [][NextStats]_vars

----------------------------------------------------------------------------
(* Inputs of parse_otel_metrics: the payload is written entry by entry, in *)
(* the order of the walk, up to MaxNodes entries; the call may come after  *)
(* any of them.                                                            *)

MaxNodes == 6

DPChoices ==
    { DataPoint(30, 1, "input", ModelOpusA),
      DataPoint(0, 2, "input", ModelOpusB),
      DataPoint(50, 2, "input", ModelHaiku),
      DataPoint(0, 1, "output", ModelHaiku),
      DataPoint(0, 1, "cacheRead", None),
      DataPoint(0, 2, "cacheCreation", ModelOpusA),
      DataPoint(30, 1, "other", ModelHaiku),
      NotAnObject }

MetricChoices ==
    { [isObj |-> TRUE, name |-> TokenUsage, dps |-> <<>>],
      [isObj |-> TRUE, name |-> "claude_code.session.count", dps |-> <<>>],
      [isObj |-> FALSE, name |-> "", dps |-> <<>>] }

Nodes(d) ==
    Len(d.rms) + Len(AllScopes(d)) + Len(AllMetrics(d)) + Len(AllDPs(d))

InitParse ==
    /\ data \in {[kind |-> k, rms |-> <<>>] :
                    k \in {"nonobj", "noRM", "rmNull", "rmNum", "rmList"}}
    /\ fallback \in {NoDate, Day(2)}
    /\ clock = 4 * 24 + 9
    /\ parsed = NotParsed
    /\ pcP = "build"
    /\ raw = None /\ norm = NotCalled /\ pcN = "idle"
    /\ SyncIdle
    /\ StatsIdle

CanAdd == pcP = "build" /\ data.kind = "rmList" /\ Nodes(data) < MaxNodes

LastRM == Len(data.rms)
LastScope == Len(data.rms[LastRM].scopes)
LastMetric == Len(data.rms[LastRM].scopes[LastScope].metrics)

AddRM ==
    /\ CanAdd
    /\ \E o \in BOOLEAN :
          data' = [data EXCEPT !.rms = Append(@, [isObj |-> o, scopes |-> <<>>])]
    /\ UNCHANGED <<fallback, parsed, pcP, clock, normVars, syncVars, statsVars>>

AddScope ==
    /\ CanAdd
    /\ data.rms # <<>> /\ data.rms[LastRM].isObj
    /\ \E o \in BOOLEAN :
          data' = [data EXCEPT !.rms[LastRM].scopes =
                                   Append(@, [isObj |-> o, metrics |-> <<>>])]
    /\ UNCHANGED <<fallback, parsed, pcP, clock, normVars, syncVars, statsVars>>

AddMetric ==
    /\ CanAdd
    /\ data.rms # <<>> /\ data.rms[LastRM].scopes # <<>>
    /\ data.rms[LastRM].scopes[LastScope].isObj
    /\ \E m \in MetricChoices :
          data' = [data EXCEPT !.rms[LastRM].scopes[LastScope].metrics = Append(@, m)]
    /\ UNCHANGED <<fallback, parsed, pcP, clock, normVars, syncVars, statsVars>>

AddDataPoint ==
    /\ CanAdd
    /\ data.rms # <<>> /\ data.rms[LastRM].scopes # <<>>
    /\ data.rms[LastRM].scopes[LastScope].metrics # <<>>
    /\ data.rms[LastRM].scopes[LastScope].metrics[LastMetric].isObj
    /\ \E dp \in DPChoices :
          data' = [data EXCEPT
                      !.rms[LastRM].scopes[LastScope].metrics[LastMetric].dps =
                          Append(@, dp)]
    /\ UNCHANGED <<fallback, parsed, pcP, clock, normVars, syncVars, statsVars>>

Parse ==
    /\ pcP = "build"
    /\ parsed' = parse_otel_metrics(data, fallback, clock)
    /\ pcP' = "done"
    /\ UNCHANGED <<data, fallback, clock, normVars, syncVars, statsVars>>

NextParse == AddRM \/ AddScope \/ AddMetric \/ AddDataPoint \/ Parse

SpecParse == InitParse /\ [][NextParse]_vars

----------------------------------------------------------------------------
(* Inputs of normalize_model_name: None, or up to MaxChunks chunks joined *)

MaxChunks == 5

Chunks ==
    { Opus, <<"O", "p", "u", "s">>, Sonnet, Haiku, <<"x">>,
      <<"4">>, <<"1", "2">>, <<"1", "2", "3">>, <<"-">>, <<".">>, <<":">> }

RawInputs(maxChunks) ==
    {None} \cup
    { Str(Concat(cs)) : cs \in UNION { [1..n -> Chunks] : n \in 0..maxChunks } }

InitNorm ==
    /\ raw \in RawInputs(MaxChunks)
    /\ norm = NotCalled
    /\ pcN = "call"
    /\ data = IdleData /\ fallback = NoDate /\ parsed = NotParsed /\ pcP = "idle"
    /\ clock = 0
    /\ SyncIdle
    /\ StatsIdle

Normalize ==
    /\ pcN = "call"
    /\ norm' = normalize_model_name(raw)
    /\ pcN' = "done"
    /\ UNCHANGED <<raw, parseVars, clock, syncVars, statsVars>>

NextNorm == Normalize

SpecNorm == InitNorm /\ [][NextNorm]_vars

----------------------------------------------------------------------------
(* C1 - C4: sync_json_to_db *)

\* The rows of the committed metrics table read from line i of file f
RowsFrom(f, i) == SelectSeq(db.metrics, LAMBDA row : row.src = <<f, i>>)

\* C1: in the committed store, every line of a file below the stored
\* last_line has its parsed records in metrics exactly once, in order, and
\* no line at or above last_line has any row there.  (Lines are numbered
\* from 1 here: line i is below last_line when i <= last_line.)
C1_ExactlyOnce ==
    \A f \in Files :
        /\ LastLine(db, f) <= Len(files[f])
        /\ \A i \in 1..Len(files[f]) :
              RowsFrom(f, i) =
                 IF i <= LastLine(db, f)
                 THEN Rows(LineOutcome(files[f][i], f, clock).records, f, i, files[f][i])
                 ELSE <<>>

\* File 1 was synced in two passes (one line each, two records per line) and
\* file 2 holds a line that is not synced yet
C1_Witness ==
    /\ hist.run = "first" /\ hist.before[1] = 1 /\ LastLine(db, 1) = 2
    /\ files[1] = <<"two", "two">>
    /\ Len(RowsFrom(1, 1)) = 2 /\ Len(RowsFrom(1, 2)) = 2
    /\ Len(files[2]) > LastLine(db, 2)

\* C2: a pass that began after a completed pass, with no line appended since
\* that pass began, ends with nothing inserted and with metrics and every
\* sync_state row (last_line and synced_at) as they were.
C2_SecondRunNoOp ==
    [][(pc = "sync" /\ pc' = "idle" /\ hist.settled /\ hist.clean)
          => (conn = db /\ db' = db)]_vars

\* A second pass over unchanged files has completed, at a later time than
\* the cursor rows were written, with records in the store
C2_Witness ==
    /\ hist.run = "repeat"
    /\ db.metrics # <<>>
    /\ \E f \in Files : db.sync_state[f].present /\ db.sync_state[f].synced_at < clock

\* C3: after a pass that failed with an I/O or storage error while handling a
\* file, the committed last_line of that file is what it was before the pass
\* and no row read from its pending lines is in metrics; and after the pass
\* that follows a failed one has completed, every line it read of that file
\* is below the cursor with its records in metrics exactly once.
C3_FailedPassRetried ==
    /\ hist.run = "failed" =>
          /\ LastLine(db, hist.file) = hist.before[hist.file]
          /\ \A i \in (hist.before[hist.file] + 1)..Len(files[hist.file]) :
                RowsFrom(hist.file, i) = <<>>
    /\ (hist.retry # 0 /\ hist.run \in {"first", "repeat"}) =>
          /\ LastLine(db, hist.retry) >= hist.read[hist.retry]
          /\ \A i \in 1..hist.read[hist.retry] :
                Len(RowsFrom(hist.retry, i)) =
                   Len(LineOutcome(files[hist.retry][i], hist.retry, clock).records)

\* A pass failed while handling a file with a pending line of two records,
\* and the next pass completed and inserted the two rows of that line
C3_Witness ==
    /\ hist.retry # 0 /\ hist.run = "first"
    /\ hist.before[hist.retry] = 0
    /\ LastLine(db, hist.retry) = 1
    /\ Len(RowsFrom(hist.retry, 1)) = 2

\* C4: the committed last_line of a file never decreases, and when a pass
\* completes, every file in which it found new lines has last_line equal to
\* the number of lines the pass read from it.
C4_CursorMonotone ==
    [][/\ \A f \in Files : LastLine(db', f) >= LastLine(db, f)
       /\ (pc = "sync" /\ pc' = "idle" /\ hist'.run \in {"first", "repeat"}) =>
             \A f \in Files :
                hist.read[f] > hist.before[f] => LastLine(db', f) = hist.read[f]]_vars

\* A completed pass moved the cursor of a file from 1 to 2
C4_Witness ==
    /\ hist.run = "first"
    /\ \E f \in Files :
          hist.before[f] = 1 /\ hist.read[f] = 2 /\ LastLine(db, f) = 2

----------------------------------------------------------------------------
(* C5, C8, C9: parse_otel_metrics *)

\* C5: whatever the shape of the decoded value, parse_otel_metrics returns a
\* list and does not raise.
C5_ParserNeverRaises == pcP = "done" => ~parsed.raised

\* Every entry of the payload is a JSON object (an OTEL payload)
WellFormed(d) == d.kind = "rmList" /\ ~WalkRaises(d)

\* The canonical models of the token-usage data points of d
ModelsOf(d) ==
    {normalize_model_name(TokenDPs(d)[i].model) : i \in 1..Len(TokenDPs(d))}

RECURSIVE SumValues(_, _)
SumValues(dps, idx) ==
    IF idx = {} THEN 0
    ELSE LET i == CHOOSE j \in idx : TRUE
         IN  dps[i].value + SumValues(dps, idx \ {i})

\* The sum of the values of the token-usage data points of model m and kind ty
OwnSum(d, m, ty) ==
    SumValues(TokenDPs(d),
              {i \in 1..Len(TokenDPs(d)) :
                  /\ normalize_model_name(TokenDPs(d)[i].model) = m
                  /\ TokenDPs(d)[i].type = ty})

\* C8: for a payload all of whose entries are objects and whose token-usage
\* data points name exactly two distinct (canonical) models,
\* parse_otel_metrics returns exactly two records, one per model, each with
\* the sums of that model's own data points per token kind, and both with
\* the same timestamp and date.
C8_MultiModelSplit ==
    (pcP = "done" /\ WellFormed(data) /\ Cardinality(ModelsOf(data)) = 2) =>
        /\ ~parsed.raised
        /\ Len(parsed.records) = 2
        /\ {parsed.records[i].model : i \in 1..2} = ModelsOf(data)
        /\ \A i \in 1..2 :
             LET r == parsed.records[i]
             IN  /\ r.input_tokens = OwnSum(data, r.model, "input")
                 /\ r.output_tokens = OwnSum(data, r.model, "output")
                 /\ r.cache_read_tokens = OwnSum(data, r.model, "cacheRead")
                 /\ r.cache_creation_tokens = OwnSum(data, r.model, "cacheCreation")
        /\ parsed.records[1].timestamp = parsed.records[2].timestamp
        /\ parsed.records[1].date = parsed.records[2].date

\* A two-model payload was parsed into two records, one of them summing two
\* data points (1 + 2 input tokens of the opus model, under two raw names)
C8_Witness ==
    /\ pcP = "done" /\ WellFormed(data) /\ Cardinality(ModelsOf(data)) = 2
    /\ Len(parsed.records) = 2
    /\ \E i \in 1..2 : /\ parsed.records[i].input_tokens = 3
                       /\ parsed.records[3 - i].input_tokens = 2

\* C9: parse_otel_metrics returns zero records whenever the payload holds no
\* token-usage data point, and at least one record whenever a payload all of
\* whose entries are objects holds at least one.
C9_NoTokenDataNoRecord ==
    pcP = "done" =>
        /\ TokenDPs(data) = <<>> => parsed = Returned(<<>>)
        /\ (WellFormed(data) /\ TokenDPs(data) # <<>>) =>
               (~parsed.raised /\ Len(parsed.records) >= 1)

----------------------------------------------------------------------------
(* C10 *)

Separators == {"-", ".", ":"}

\* The tokens of s between separator characters
RECURSIVE Tokens(_)
Tokens(s) ==
    IF \A i \in 1..Len(s) : s[i] \notin Separators
    THEN <<s>>
    ELSE LET i == CHOOSE k \in 1..Len(s) :
                     s[k] \in Separators /\ \A j \in 1..(k - 1) : s[j] \notin Separators
         IN  <<SubSeq(s, 1, i - 1)>> \o Tokens(SubSeq(s, i + 1, Len(s)))

\* The families found in s, case-insensitively
FamiliesIn(s) == {k \in 1..Len(Families) : Contains(Families[k], Lower(s))}

FirstFamily(s) == Families[CHOOSE k \in FamiliesIn(s) : \A j \in FamiliesIn(s) : k <= j]

\* Positions of the tokens of s that are the family keyword, case-insensitively
KeywordTokens(s, family) == {i \in 1..Len(Tokens(s)) : Lower(Tokens(s)[i]) = family}

\* Number of leading tokens that are all-digit and at most 2 characters long
RECURSIVE RunLength(_)
RunLength(toks) ==
    IF toks # <<>> /\ IsDigit(toks[1]) /\ Len(toks[1]) <= 2
    THEN 1 + RunLength(Tail(toks))
    ELSE 0

\* The tag the claim describes: the family, then "-" and each token of the run
RECURSIVE Tagged(_, _, _)
Tagged(tag, toks, n) ==
    IF n = 0 THEN tag ELSE Tagged(tag \o <<"-">> \o toks[1], Tail(toks), n - 1)

ExpectedTag(s) ==
    LET family == FirstFamily(s)
        at     == CHOOSE i \in KeywordTokens(s, family) :
                      \A j \in KeywordTokens(s, family) : i <= j
        rest   == SubSeq(Tokens(s), at + 1, Len(Tokens(s)))
    IN  Tagged(family, rest, RunLength(rest))

\* C10: once normalize_model_name has returned, an absent identifier gave
\* absence, a (non-empty) identifier with no family keyword came back
\* unchanged, and an identifier one of whose separator-delimited tokens is the
\* first-priority family keyword in any letter case gave that keyword joined
\* by "-" with the maximal run of following all-digit tokens of at most 2
\* characters (the bare keyword when the run is empty).
C10_NormalizerTag ==
    pcN = "done" =>
        /\ raw.isNone => norm = None
        /\ (Truthy(raw) /\ FamiliesIn(raw.chars) = {}) => norm = raw
        /\ (Truthy(raw) /\ FamiliesIn(raw.chars) # {}
              /\ KeywordTokens(raw.chars, FirstFamily(raw.chars)) # {})
           => norm = Str(ExpectedTag(raw.chars))

----------------------------------------------------------------------------
(* Claims C6 and C7, on SpecStats                                          *)

\* The sum over the model buckets of rows of compute_cost(bucket, its model)
RECURSIVE BucketCosts(_)
BucketCosts(groups) ==
    IF groups = {} THEN 0
    ELSE LET g == CHOOSE x \in groups : TRUE
         IN  compute_cost(g.sums.inp, g.sums.out, g.sums.cr, g.sums.cc, g.model)
             + BucketCosts(groups \ {g})

PerBucketCost(rows) == BucketCosts(ModelGroups(rows))

\* The records the queries of the current period select, and those of the
\* previous period
Selected == DatedFrom(db.metrics, Today - (days - 1))

SelectedBefore == DatedWithin(db.metrics, Today - (2 * days - 1), Today - days)

\* C6: every aggregate cost that print_stats reports (the total of the
\* current window, the total of the previous window behind the cost trend,
\* and the cost of each row of the daily breakdown) is the sum, over the
\* model buckets of the records it covers, of compute_cost of the bucket
\* under the bucket's model.  The records are those the queries selected.
C6_CostPerModelBucket ==
    (pcS = "printed" /\ report.shown) =>
        /\ report.total_cost = PerBucketCost(Selected)
        /\ report.prev_cost = PerBucketCost(SelectedBefore)
        /\ \A i \in 1..Len(report.daily) :
              report.daily[i].cost =
                  PerBucketCost(DatedWithin(Selected, report.daily[i].date,
                                            report.daily[i].date))

\* The records dated today - days + 1 <= d <= today
InWindow == DatedWithin(db.metrics, Today - days + 1, Today)

\* C7: get_stats aggregates exactly the records dated from today - days + 1
\* to today, both days included: request_count, the token sums, by_model,
\* by_hour and daily_breakdown are those of these records, so a record
\* dated after today or before today - days + 1 contributes to none.
C7_WindowInclusive ==
    pcS \in {"got", "printed"} =>
        /\ stats.request_count = Len(InWindow)
        /\ stats.sums = Totals(InWindow)
        /\ stats.total_tokens = SumOf(InWindow, "total_tokens")
        /\ stats.by_model \in Descending(ModelGroups(InWindow))
        /\ stats.by_hour = by_hour(InWindow)
        /\ stats.daily_breakdown = daily_breakdown(InWindow)

----------------------------------------------------------------------------
(* C11: a line that is not valid JSON, on Spec *)

\* The rows of the metrics table of `tables` read from line i of file f
RowsIn(tables, f, i) == SelectSeq(tables.metrics, LAMBDA row : row.src = <<f, i>>)

\* The new lines of f at which json.loads raises json.JSONDecodeError
MalformedLines(tables, f, lines) ==
    {i \in NewLines(tables, f, lines) : ~JsonLoads(lines[i]).ok}

\* The loop of line 251 over the new lines of f is left, by its end or by an
\* exception out of the handling of a line (an I/O or storage error apart)
LoopLeft(f) ==
    /\ pc = "sync" /\ next <= Len(json_files) /\ json_files[next] = f
    /\ (next' = next + 1 \/ hist'.run = "raised")

\* C11: when a pass handles a file among whose new lines one is not valid
\* JSON, that line gives no row and does not stop the pass: the pass goes
\* on, every other new line of the file has its parsed records inserted, and
\* the cursor of the file is advanced to the number of lines of the file,
\* also when no record was inserted.
C11_MalformedLineSkipped ==
    [][\A f \in Files :
          (LoopLeft(f) /\ MalformedLines(conn, f, files[f]) # {}) =>
              /\ pc' = "sync"
              /\ \A i \in NewLines(conn, f, files[f]) :
                    RowsIn(conn', f, i) =
                       IF i \in MalformedLines(conn, f, files[f]) THEN <<>>
                       ELSE Rows(LineOutcome(files[f][i], f, clock).records,
                                 f, i, files[f][i])
              /\ conn'.sync_state[f].present
              /\ LastLine(conn', f) = Len(files[f])]_vars

----------------------------------------------------------------------------
(* C12: truncated and rewritten files, on SpecRewrite *)

\* A pass completes
PassCompletes == pc = "sync" /\ pc' = "idle" /\ hist'.run \in {"first", "repeat"}

\* The rows that the step adds to the committed metrics table
Ingested == SubSeq(db'.metrics, Len(db.metrics) + 1, Len(db'.metrics))

\* C12: when a pass handles a file that holds at most last_line lines
\* (truncated or rewritten since it was synced), it inserts nothing and
\* leaves the sync_state row of the file as it is; the committed last_line
\* of a file never decreases, whatever happens to the file; and a completed
\* pass removes no row and ingests only lines at indices from the old
\* last_line on (numbered from 0; here, from 1: above last_line), so that
\* what is written below the old last_line is never ingested.
C12_TruncatedFileIgnored ==
    [][/\ \A f \in Files : LastLine(db', f) >= LastLine(db, f)
       /\ \A f \in Files :
             (/\ pc = "sync" /\ next <= Len(json_files) /\ json_files[next] = f
              /\ next' = next + 1
              /\ Len(files[f]) <= LastLine(conn, f)) => conn' = conn
       /\ PassCompletes =>
             /\ Len(db'.metrics) >= Len(db.metrics)
             /\ SubSeq(db'.metrics, 1, Len(db.metrics)) = db.metrics
             /\ \A k \in 1..Len(Ingested) :
                   Ingested[k].src[2] > LastLine(db, Ingested[k].src[1])
             /\ \A f \in Files :
                   (hist.read[f] # -1 /\ hist.read[f] <= hist.before[f]) =>
                       db'.sync_state[f] = db.sync_state[f]]_vars

\* File 1 was synced with two lines of two records each, then emptied and
\* rewritten with the single line "bad"; a pass over it has completed since:
\* the cursor is still 2, the rows of the two old lines are all there are,
\* and the new first line is not ingested.
C12_Witness ==
    /\ hist.settled /\ hist.cuts > 0
    /\ files[1] = <<"bad">>
    /\ LastLine(db, 1) = 2
    /\ Len(RowsFrom(1, 1)) = 2 /\ Len(RowsFrom(1, 2)) = 2
    /\ Len(db.metrics) = 4

====
